---- MODULE Spec2Model ----
(***************************************************************************)
(* single_level_paid_rpt_loss_model (src/single_level_paid_rpt_loss.py):   *)
(* the builder of the paid/reported loss model.                            *)
(*                                                                         *)
(* Two specifications:                                                     *)
(*   Spec      the construction call, statement by statement: the coords   *)
(*             dictionary, the model context of the with statement, the    *)
(*             ten declarations in the order of the source, the return or  *)
(*             the exception that ends the call;                           *)
(*   SpecEval  the value of the declared graph at parameter values drawn   *)
(*             from the priors' supports: exp, the two products and the    *)
(*             two Gamma parameters, computed as the source's expressions  *)
(*             compute them (NumPy broadcasting, exact rationals).         *)
(*                                                                         *)
(* The library (pymc) is not part of the repository. A declaration is      *)
(* modelled by what the source hands to it: name, distribution, dims,      *)
(* shape, observed data and the variables its arguments reference. Whether *)
(* the library raises on an inconsistent declaration when it is declared   *)
(* depends on the library build, so both outcomes are behaviours of Spec.  *)
(***************************************************************************)
EXTENDS Integers, Sequences, FiniteSets, TLC

VARIABLES
    pc,             \* "idle" | "declare" | "done" | "failed": position of the call
    next_decl,      \* index in DeclOrder of the next declaration statement
    args,           \* the arguments of the call in progress (or of the last call)
    coords,         \* the local dict of lines 8-13
    named_vars,     \* the variables registered in the model, in registration order
    context_stack,  \* the ambient stack of model contexts
    outer,          \* the ambient stack before the first call
    returned,       \* "nothing", or "model": the model holding named_vars was returned
    error,          \* "none" or the kind of the exception that ended the call
    epc,            \* evaluation: "idle" | "drawn" | "evaluated" | "cell" | "shape_error"
    theta,          \* evaluation: the parameter values drawn
    det,            \* evaluation: the values of the deterministic variables
    lik             \* evaluation: one cell of one likelihood

builder_vars == <<pc, next_decl, args, coords, named_vars, context_stack, outer, returned, error>>
eval_vars == <<epc, theta, det, lik>>
vars == <<pc, next_decl, args, coords, named_vars, context_stack, outer, returned, error,
          epc, theta, det, lik>>

(***************************************************************************)
(* Bounds.                                                                 *)
(***************************************************************************)
\* the largest number of origin periods and of development periods
MaxDim == 3

Dims == 1..MaxDim

Max(a, b) == IF a >= b THEN a ELSE b

(***************************************************************************)
(* Arguments of the call.                                                  *)
(***************************************************************************)
\* An axis argument: its labels are opaque, only their number and whether the
\* sequence is an ndarray (has .shape) or a plain list matter to the builder.
Axis(kind, n) == [kind |-> kind, len |-> n]

\* An r x c matrix with distinct entries off, off+1, ... in row-major order.
ObsMatrix(r, c, off) ==
    [shape |-> <<r, c>>,
     at |-> [ix \in (1..r) \X (1..c) |-> off + (ix[1] - 1) * c + (ix[2] - 1)]]

\* The shapes tried for an observed matrix given O and D: the matching shape,
\* its transpose and one with a row too many.
ObsShapes(O, D) == {<<O, D>>, <<D, O>>, <<O + 1, D>>}

\* First entries of the observed matrices: -1 and 0 give non-positive entries.
ObsOffsets == {-1, 0, 1, 2}

AxisKinds == {"ndarray", "list"}

ArgsFor(k, O, D) ==
    { [origin_period |-> Axis(k, O),
       development_period |-> Axis(k, D),
       observed_rpt_loss |-> ObsMatrix(sr[1], sr[2], fr),
       observed_paid_loss |-> ObsMatrix(sp[1], sp[2], fp)] :
        sr \in ObsShapes(O, D), sp \in ObsShapes(O, D),
        fr \in ObsOffsets, fp \in ObsOffsets }

\* The arguments recorded before any call.
NoArgs ==
    [origin_period |-> Axis("ndarray", 1),
     development_period |-> Axis("ndarray", 1),
     observed_rpt_loss |-> ObsMatrix(1, 1, 1),
     observed_paid_loss |-> ObsMatrix(1, 1, 1)]

ArgSets == UNION { ArgsFor(k, O, D) : k \in AxisKinds, O \in Dims, D \in Dims }

\* len(origin_period), len(development_period)
NumOrigin(a) == a.origin_period.len
NumDev(a) == a.development_period.len

AllPositive(m) == \A ix \in DOMAIN m.at : m.at[ix] > 0

\* The spec's valid inputs: O, D >= 1, both observed matrices strictly positive
\* with shape O x D.
ValidArgs(a) ==
    /\ NumOrigin(a) >= 1 /\ NumDev(a) >= 1
    /\ a.observed_rpt_loss.shape = <<NumOrigin(a), NumDev(a)>>
    /\ a.observed_paid_loss.shape = <<NumOrigin(a), NumDev(a)>>
    /\ AllPositive(a.observed_rpt_loss)
    /\ AllPositive(a.observed_paid_loss)

(***************************************************************************)
(* Lines 8-13: the coords dictionary.                                      *)
(***************************************************************************)
MakeCoords(a) ==
    [origin_period |-> a.origin_period,
     development_period |-> a.development_period,
     observed_rpt_loss |-> a.observed_rpt_loss,
     observed_paid_loss |-> a.observed_paid_loss]

\* x.shape of an axis: the 1-tuple (n,) of an ndarray; a list has no .shape.
HasShape(axis) == axis.kind = "ndarray"
ShapeAttr(axis) == <<axis.len>>

\* shape=(coords["origin_period"].shape, coords["development_period"].shape):
\* a tuple of two 1-tuples.
ShapeKwarg(c) == <<ShapeAttr(c.origin_period), ShapeAttr(c.development_period)>>

(***************************************************************************)
(* Shapes: dims resolve to the lengths of the coords they name; tensor     *)
(* arithmetic broadcasts as NumPy does (shapes aligned at the last axis,   *)
(* an axis of length 1 stretched).                                         *)
(***************************************************************************)
DimLength(dim, c) ==
    IF dim = "origin_period" THEN c.origin_period.len ELSE c.development_period.len

DimLengths(dims, c) == [i \in 1..Len(dims) |-> DimLength(dims[i], c)]

Pad(s, n) == [i \in 1..n |-> IF i <= n - Len(s) THEN 1 ELSE s[i - (n - Len(s))]]

Broadcastable(s1, s2) ==
    LET n == Max(Len(s1), Len(s2))
        p1 == Pad(s1, n)
        p2 == Pad(s2, n)
    IN  \A i \in 1..n : p1[i] = p2[i] \/ p1[i] = 1 \/ p2[i] = 1

BroadcastShape(s1, s2) ==
    LET n == Max(Len(s1), Len(s2))
        p1 == Pad(s1, n)
        p2 == Pad(s2, n)
    IN  [i \in 1..n |-> Max(p1[i], p2[i])]

\* The shape of a * b for operands of shapes s1 and s2.
ProductShape(s1, s2) ==
    IF Broadcastable(s1, s2)
    THEN [ok |-> TRUE, shape |-> BroadcastShape(s1, s2)]
    ELSE [ok |-> FALSE, shape |-> <<>>]

(***************************************************************************)
(* Lines 20-92: the ten declarations. A declaration is the record of what  *)
(* the source passes: name, distribution, dims, the shape keyword,         *)
(* observed data (<<>> when none, <<matrix>> otherwise), the registered    *)
(* variables its arguments reference (parents) and, for a Deterministic,   *)
(* the shape of the tensor it names (value).                               *)
(***************************************************************************)
NoValue == [ok |-> TRUE, shape |-> <<>>]

\* lines 20-22
log__expected_ult__loss(c) ==
    [name |-> "log__expected_ult__loss", dist |-> "Normal",
     dims |-> <<"origin_period">>, shape |-> <<>>, observed |-> <<>>,
     parents |-> {}, value |-> NoValue]

\* lines 26-31
expected_pct_of_ult__rpt_loss(c) ==
    [name |-> "expected_pct_of_ult__rpt_loss", dist |-> "Uniform",
     dims |-> <<"development_period">>, shape |-> <<>>, observed |-> <<>>,
     parents |-> {}, value |-> NoValue]

\* lines 32-37
expected_pct_of_ult__paid_loss(c) ==
    [name |-> "expected_pct_of_ult__paid_loss", dist |-> "Uniform",
     dims |-> <<"development_period">>, shape |-> <<>>, observed |-> <<>>,
     parents |-> {}, value |-> NoValue]

\* lines 42-47: dims names one axis, shape two
sigma__rpt_loss(c) ==
    [name |-> "sigma__rpt_loss", dist |-> "HalfNormal",
     dims |-> <<"origin_period">>, shape |-> ShapeKwarg(c), observed |-> <<>>,
     parents |-> {}, value |-> NoValue]

\* lines 48-53
sigma__paid_loss(c) ==
    [name |-> "sigma__paid_loss", dist |-> "HalfNormal",
     dims |-> <<"origin_period">>, shape |-> ShapeKwarg(c), observed |-> <<>>,
     parents |-> {}, value |-> NoValue]

\* lines 58-60: pm.math.exp is elementwise, the value has the shape of its operand
expected_ult__loss(c) ==
    [name |-> "expected_ult__loss", dist |-> "Deterministic",
     dims |-> <<>>, shape |-> <<>>, observed |-> <<>>,
     parents |-> {"log__expected_ult__loss"},
     value |-> [ok |-> TRUE, shape |-> DimLengths(<<"origin_period">>, c)]]

\* lines 64-68: the product of an (O,) tensor and a (D,) tensor
mu__rpt_loss(c) ==
    [name |-> "mu__rpt_loss", dist |-> "Deterministic",
     dims |-> <<>>, shape |-> ShapeKwarg(c), observed |-> <<>>,
     parents |-> {"expected_ult__loss", "expected_pct_of_ult__rpt_loss"},
     value |-> ProductShape(DimLengths(<<"origin_period">>, c),
                            DimLengths(<<"development_period">>, c))]

\* lines 72-76
mu__paid_loss(c) ==
    [name |-> "mu__paid_loss", dist |-> "Deterministic",
     dims |-> <<>>, shape |-> ShapeKwarg(c), observed |-> <<>>,
     parents |-> {"expected_ult__loss", "expected_pct_of_ult__paid_loss"},
     value |-> ProductShape(DimLengths(<<"origin_period">>, c),
                            DimLengths(<<"development_period">>, c))]

\* lines 79-85
rpt_loss(c) ==
    [name |-> "rpt_loss", dist |-> "Gamma",
     dims |-> <<"origin_period", "development_period">>, shape |-> <<>>,
     observed |-> <<c.observed_rpt_loss>>,
     parents |-> {"mu__rpt_loss", "sigma__rpt_loss"}, value |-> NoValue]

\* a copy-and-paste slip: the paid likelihood observed at the reported matrix
paid_loss_observes_rpt(c) ==
    [name |-> "paid_loss", dist |-> "Gamma",
     dims |-> <<"origin_period", "development_period">>, shape |-> <<>>,
     observed |-> <<c.observed_rpt_loss>>,
     parents |-> {"mu__paid_loss", "sigma__paid_loss"}, value |-> NoValue]

\* lines 86-92
paid_loss(c) ==
    [name |-> "paid_loss", dist |-> "Gamma",
     dims |-> <<"origin_period", "development_period">>, shape |-> <<>>,
     observed |-> <<c.observed_paid_loss>>,
     parents |-> {"mu__paid_loss", "sigma__paid_loss"}, value |-> NoValue]

\* the statements in another order: mu__rpt_loss before expected_ult__loss
DeclOrder_mu_first ==
    << "log__expected_ult__loss", "expected_pct_of_ult__rpt_loss",
       "expected_pct_of_ult__paid_loss", "sigma__rpt_loss", "sigma__paid_loss",
       "mu__rpt_loss", "expected_ult__loss", "mu__paid_loss",
       "rpt_loss", "paid_loss" >>

\* The declaration statements in the order of the source.
DeclOrder ==
    << "log__expected_ult__loss", "expected_pct_of_ult__rpt_loss",
       "expected_pct_of_ult__paid_loss", "sigma__rpt_loss", "sigma__paid_loss",
       "expected_ult__loss", "mu__rpt_loss", "mu__paid_loss",
       "rpt_loss", "paid_loss" >>

Declaration(name, c) ==
    CASE name = "log__expected_ult__loss" -> log__expected_ult__loss(c)
      [] name = "expected_pct_of_ult__rpt_loss" -> expected_pct_of_ult__rpt_loss(c)
      [] name = "expected_pct_of_ult__paid_loss" -> expected_pct_of_ult__paid_loss(c)
      [] name = "sigma__rpt_loss" -> sigma__rpt_loss(c)
      [] name = "sigma__paid_loss" -> sigma__paid_loss(c)
      [] name = "expected_ult__loss" -> expected_ult__loss(c)
      [] name = "mu__rpt_loss" -> mu__rpt_loss(c)
      [] name = "mu__paid_loss" -> mu__paid_loss(c)
      [] name = "rpt_loss" -> rpt_loss(c)
      [] name = "paid_loss" -> paid_loss(c)

\* The statements that read coords[...].shape (lines 46, 52, 67, 75).
ReadsShapeAttr(name) ==
    name \in {"sigma__rpt_loss", "sigma__paid_loss", "mu__rpt_loss", "mu__paid_loss"}

Names(nv) == {nv[i].name : i \in 1..Len(nv)}

\* The exception Python raises while the statement evaluates its arguments:
\* a local read before its assignment, .shape of a list; "none" otherwise.
ErrorOf(name, c, nv) ==
    IF ~(Declaration(name, c).parents \subseteq Names(nv)) THEN "unbound_local"
    ELSE IF ReadsShapeAttr(name)
            /\ ~(HasShape(c.origin_period) /\ HasShape(c.development_period))
         THEN "attribute"
    ELSE "none"

\* A declaration whose own arguments disagree: dims and shape name different
\* numbers of axes; the tensor given to a Deterministic cannot be formed or has
\* not the number of axes of its shape keyword; the observed data has not the
\* lengths of the dims. The source tests none of this; the library may.
IllFormed(d, c) ==
    \/ d.dims # <<>> /\ d.shape # <<>> /\ Len(d.dims) # Len(d.shape)
    \/ d.dist = "Deterministic" /\ d.shape # <<>>
         /\ (~d.value.ok \/ Len(d.value.shape) # Len(d.shape))
    \/ d.observed # <<>> /\ d.observed[1].shape # DimLengths(d.dims, c)

(***************************************************************************)
(* Line 15: the with statement. pm.Model() is pushed on the ambient stack  *)
(* when the block is entered and popped when it is left, by the end of the *)
(* block or by an exception.                                               *)
(***************************************************************************)
EnterContext(stack) == Append(stack, "model")

ExitContext(stack) == SubSeq(stack, 1, Len(stack) - 1)

\* the block left by an exception without the with statement's __exit__
UnwindContext_leak(stack) == stack

\* The with statement leaving the block by an exception.
UnwindContext(stack) == ExitContext(stack)

(***************************************************************************)
(* The evaluation state while the builder runs.                            *)
(***************************************************************************)
NoTheta == [which |-> "none", log |-> <<>>, pct |-> <<>>]
NoDet == [ult |-> <<>>, mu |-> <<>>]
NoLik == [cell |-> <<>>]

EvalIdle == epc = "idle" /\ theta = NoTheta /\ det = NoDet /\ lik = NoLik

(***************************************************************************)
(* The construction call.                                                  *)
(***************************************************************************)
Init ==
    /\ pc = "idle"
    /\ next_decl = 0
    /\ args = NoArgs
    /\ coords = MakeCoords(args)
    /\ named_vars = <<>>
    /\ outer \in {<<>>, <<"enclosing_model">>}
    /\ context_stack = outer
    /\ returned = "nothing"
    /\ error = "none"
    /\ EvalIdle

\* lines 5-15: a call starts, builds coords and enters the model context
Call ==
    /\ pc = "idle"
    /\ \E a \in ArgSets :
          /\ args' = a
          /\ coords' = MakeCoords(a)
    /\ context_stack' = EnterContext(context_stack)
    /\ named_vars' = <<>>
    /\ next_decl' = 1
    /\ returned' = "nothing"
    /\ error' = "none"
    /\ pc' = "declare"
    /\ UNCHANGED <<outer, epc, theta, det, lik>>

\* lines 20-92: the next declaration registers its variable
Declare ==
    /\ pc = "declare"
    /\ next_decl <= Len(DeclOrder)
    /\ ErrorOf(DeclOrder[next_decl], coords, named_vars) = "none"
    /\ named_vars' = Append(named_vars, Declaration(DeclOrder[next_decl], coords))
    /\ next_decl' = next_decl + 1
    /\ UNCHANGED <<pc, args, coords, context_stack, outer, returned, error,
                   epc, theta, det, lik>>

\* a statement raises while it evaluates its arguments
Raise ==
    /\ pc = "declare"
    /\ next_decl <= Len(DeclOrder)
    /\ ErrorOf(DeclOrder[next_decl], coords, named_vars) # "none"
    /\ error' = ErrorOf(DeclOrder[next_decl], coords, named_vars)
    /\ context_stack' = UnwindContext(context_stack)
    /\ pc' = "failed"
    /\ UNCHANGED <<next_decl, args, coords, named_vars, outer, returned,
                   epc, theta, det, lik>>

\* the library refuses an ill-formed declaration
Reject ==
    /\ pc = "declare"
    /\ next_decl <= Len(DeclOrder)
    /\ ErrorOf(DeclOrder[next_decl], coords, named_vars) = "none"
    /\ IllFormed(Declaration(DeclOrder[next_decl], coords), coords)
    /\ error' = "dimension"
    /\ context_stack' = UnwindContext(context_stack)
    /\ pc' = "failed"
    /\ UNCHANGED <<next_decl, args, coords, named_vars, outer, returned,
                   epc, theta, det, lik>>

\* line 94: the block ends and the model is returned
Return ==
    /\ pc = "declare"
    /\ next_decl = Len(DeclOrder) + 1
    /\ context_stack' = ExitContext(context_stack)
    /\ returned' = "model"
    /\ pc' = "done"
    /\ UNCHANGED <<next_decl, args, coords, named_vars, outer, error,
                   epc, theta, det, lik>>

\* the caller is done with the model, or with the exception, of the last call
Discard ==
    /\ pc \in {"done", "failed"}
    /\ pc' = "idle"
    /\ next_decl' = 0
    /\ args' = NoArgs
    /\ coords' = MakeCoords(NoArgs)
    /\ named_vars' = <<>>
    /\ returned' = "nothing"
    /\ error' = "none"
    /\ UNCHANGED <<context_stack, outer, epc, theta, det, lik>>

Next ==
    \/ Call
    \/ Declare
    \/ Raise
    \/ Reject
    \/ Return
    \/ Discard

Spec == Init /\ [][Next]_vars

(***************************************************************************)
(* Evaluation of the declared graph. Values are exact rationals            *)
(* [n |-> numerator, d |-> denominator > 0] in lowest terms; a quotient is *)
(* [def, v], def = FALSE for a division by zero (the tensor library yields *)
(* inf or nan there and raises nothing).                                   *)
(***************************************************************************)
RECURSIVE GCD(_, _)
GCD(a, b) == IF b = 0 THEN a ELSE GCD(b, a % b)

Abs(x) == IF x < 0 THEN -x ELSE x

Rat(n, d) ==
    LET g == GCD(Abs(n), d)
    IN  [n |-> n \div g, d |-> d \div g]

RMul(x, y) == Rat(x.n * y.n, x.d * y.d)

\* x**2
RSq(x) == RMul(x, x)

RPos(x) == x.n > 0

RNonNeg(x) == x.n >= 0

RLeq(x, y) == x.n * y.d <= y.n * x.d

Undefined == [def |-> FALSE, v |-> Rat(0, 1)]

\* x / y
RDiv(x, y) ==
    IF y.n = 0 THEN Undefined
    ELSE [def |-> TRUE,
          v |-> IF y.n > 0 THEN Rat(x.n * y.d, x.d * y.n)
                ELSE Rat(-(x.n * y.d), x.d * (-y.n))]

RECURSIVE Pow2(_)
Pow2(k) == IF k = 0 THEN 1 ELSE 2 * Pow2(k - 1)

\* the operand itself in place of its exponential
Exp_identity(k) == Rat(k, 1)

\* pm.math.exp at k * ln 2: the parameter values drawn for
\* log__expected_ult__loss are multiples of ln 2, so that exp is rational.
Exp(k) == IF k >= 0 THEN Rat(Pow2(k), 1) ELSE Rat(1, Pow2(-k))

\* Tensors: [ok, shape, at], at a function of the index tuples of shape.
IndexSet(s) ==
    IF Len(s) = 1 THEN {<<i>> : i \in 1..s[1]} ELSE (1..s[1]) \X (1..s[2])

NoTensor == [ok |-> FALSE, shape |-> <<>>, at |-> <<>>]

Vector(vals) ==
    [ok |-> TRUE, shape |-> <<Len(vals)>>,
     at |-> [ix \in IndexSet(<<Len(vals)>>) |-> vals[ix[1]]]]

\* The index into an operand of shape s that feeds index ix of the broadcast result.
SourceIndex(s, ix) ==
    [i \in 1..Len(s) |-> IF s[i] = 1 THEN 1 ELSE ix[i + (Len(ix) - Len(s))]]

\* a * b of two tensors
TensorMul(a, b) ==
    IF ~(a.ok /\ b.ok /\ Broadcastable(a.shape, b.shape)) THEN NoTensor
    ELSE LET s == BroadcastShape(a.shape, b.shape)
         IN  [ok |-> TRUE, shape |-> s,
              at |-> [ix \in IndexSet(s) |->
                        RMul(a.at[SourceIndex(a.shape, ix)],
                             b.at[SourceIndex(b.shape, ix)])]]

\* lines 58-60: pm.math.exp(log__expected_ult__loss), elementwise
eval_expected_ult__loss(logv) == Vector([o \in 1..Len(logv) |-> Exp(logv[o])])

\* lines 66 and 74: expected_ult__loss * expected_pct_of_ult__..._loss
eval_mu(ult, pct) == TensorMul(ult, Vector(pct))

\* lines 81 and 88: alpha = mu / sigma**2
GammaAlpha(mu, sigma) == RDiv(mu, RSq(sigma))

\* lines 82 and 89: beta = sigma**2 / mu
GammaBeta(mu, sigma) == RDiv(RSq(sigma), mu)

\* The parameter values drawn: multiples of ln 2 for the Normal prior, values
\* of [0, 2] and [0, 1.2] for the two Uniform priors (both ends included),
\* values >= 0 for the HalfNormal priors.
LogVals == {-1, 0, 1}

PctLower == Rat(0, 1)

PctUpper(which) == IF which = "rpt" THEN Rat(2, 1) ELSE Rat(6, 5)

PctVals(which) ==
    IF which = "rpt" THEN {Rat(0, 1), Rat(1, 1), Rat(2, 1)}
    ELSE {Rat(0, 1), Rat(1, 2), Rat(6, 5)}

SigmaVals == {Rat(0, 1), Rat(1, 1), Rat(2, 1)}

Seqs(S, n) == [1..n -> S]

\* The model returned by a call with ndarray axes and matching observed data.
ReturnedModel(c) == [i \in 1..Len(DeclOrder) |-> Declaration(DeclOrder[i], c)]

InitEval ==
    /\ \E O \in Dims, D \in Dims :
         args = [origin_period |-> Axis("ndarray", O),
                 development_period |-> Axis("ndarray", D),
                 observed_rpt_loss |-> ObsMatrix(O, D, 1),
                 observed_paid_loss |-> ObsMatrix(O, D, 1)]
    /\ coords = MakeCoords(args)
    /\ named_vars = ReturnedModel(coords)
    /\ returned = "model"
    /\ pc = "done"
    /\ next_decl = Len(DeclOrder) + 1
    /\ outer = <<>>
    /\ context_stack = <<>>
    /\ error = "none"
    /\ EvalIdle

\* parameter values are drawn for one of the two likelihoods
Draw ==
    /\ epc = "idle"
    /\ \E which \in {"rpt", "paid"} :
          \E logv \in Seqs(LogVals, NumOrigin(args)),
             pct \in Seqs(PctVals(which), NumDev(args)) :
             theta' = [which |-> which, log |-> logv, pct |-> pct]
    /\ epc' = "drawn"
    /\ UNCHANGED <<det, lik>>
    /\ UNCHANGED builder_vars

\* the deterministic variables are computed from the draw
EvalDeterministics ==
    /\ epc = "drawn"
    /\ LET ult == eval_expected_ult__loss(theta.log)
       IN  det' = [ult |-> ult, mu |-> eval_mu(ult, theta.pct)]
    /\ epc' = "evaluated"
    /\ UNCHANGED <<theta, lik>>
    /\ UNCHANGED builder_vars

\* The shape of a likelihood: the lengths of its dims.
LikShape(c) == DimLengths(<<"origin_period", "development_period">>, c)

\* mu fits the likelihood when it broadcasts to the likelihood's shape.
MuFits(mu, c) ==
    /\ mu.ok
    /\ Broadcastable(mu.shape, LikShape(c))
    /\ BroadcastShape(mu.shape, LikShape(c)) = LikShape(c)

\* lines 79-92: the Gamma parameters of one cell, sigma drawn for that cell
EvalCell ==
    /\ epc = "evaluated"
    /\ MuFits(det.mu, coords)
    /\ \E o \in 1..NumOrigin(args), d \in 1..NumDev(args), sigma \in SigmaVals :
          LET m == det.mu.at[SourceIndex(det.mu.shape, <<o, d>>)]
          IN  lik' = [cell |-> <<o, d>>, sigma |-> sigma, mu |-> m,
                      alpha |-> GammaAlpha(m, sigma), beta |-> GammaBeta(m, sigma)]
    /\ epc' = "cell"
    /\ UNCHANGED <<theta, det>>
    /\ UNCHANGED builder_vars

\* mu cannot be broadcast to the likelihood's shape
EvalShapeError ==
    /\ epc = "evaluated"
    /\ ~MuFits(det.mu, coords)
    /\ epc' = "shape_error"
    /\ UNCHANGED <<theta, det, lik>>
    /\ UNCHANGED builder_vars

NextEval ==
    \/ Draw
    \/ EvalDeterministics
    \/ EvalCell
    \/ EvalShapeError

SpecEval == InitEval /\ [][NextEval]_vars

(***************************************************************************)
(* The claims. The spec writes the variables' names in full; they stand    *)
(* for the names of the source as SpecNameOf gives them.                   *)
(***************************************************************************)
Ended == pc \in {"done", "failed"}

Evaluated == epc \in {"evaluated", "cell", "shape_error"}

\* C1: for every cell of both likelihoods and every mu > 0 and sigma > 0, the
\* mean alpha / beta implied by the two values passed to Gamma equals mu.
C1_ImpliedMeanIsMu ==
    (epc = "cell" /\ RPos(lik.mu) /\ RPos(lik.sigma)) =>
        /\ lik.alpha.def
        /\ lik.beta.def
        /\ RDiv(lik.alpha.v, lik.beta.v).def
        /\ RDiv(lik.alpha.v, lik.beta.v).v = lik.mu

\* C2: for any O, D >= 1 each mu is the O-by-D outer product: mu[o,d] equals
\* expected_ult__loss[o] times expected_pct_of_ult__..._loss[d].
C2_MuIsOuterProduct ==
    Evaluated =>
        /\ det.mu.ok
        /\ det.mu.shape = <<NumOrigin(args), NumDev(args)>>
        /\ \A o \in 1..NumOrigin(args), d \in 1..NumDev(args) :
              det.mu.at[<<o, d>>] = RMul(det.ult.at[<<o>>], theta.pct[d])

SpecNameOf(name) ==
    CASE name = "log__expected_ult__loss" -> "log_expected_ultimate_loss"
      [] name = "expected_pct_of_ult__rpt_loss" -> "expected_pct_ultimate_reported"
      [] name = "expected_pct_of_ult__paid_loss" -> "expected_pct_ultimate_paid"
      [] name = "sigma__rpt_loss" -> "sigma_reported"
      [] name = "sigma__paid_loss" -> "sigma_paid"
      [] name = "expected_ult__loss" -> "expected_ultimate_loss"
      [] name = "mu__rpt_loss" -> "mu_reported"
      [] name = "mu__paid_loss" -> "mu_paid"
      [] name = "rpt_loss" -> "reported_loss"
      [] name = "paid_loss" -> "paid_loss"
      [] OTHER -> name

TenNames ==
    {"log_expected_ultimate_loss", "expected_pct_ultimate_reported",
     "expected_pct_ultimate_paid", "sigma_reported", "sigma_paid",
     "expected_ultimate_loss", "mu_reported", "mu_paid", "reported_loss", "paid_loss"}

\* C3: for every valid input the call succeeds and the returned model exposes
\* exactly the ten named variables.
C3_ValidInputBuildsTenVariables ==
    (Ended /\ ValidArgs(args)) =>
        /\ pc = "done"
        /\ returned = "model"
        /\ {SpecNameOf(n) : n \in Names(named_vars)} = TenNames
        /\ Len(named_vars) = Cardinality(TenNames)

RoleDims(name) ==
    CASE name \in {"log__expected_ult__loss", "expected_ult__loss"} -> <<"origin_period">>
      [] name \in {"expected_pct_of_ult__rpt_loss", "expected_pct_of_ult__paid_loss"} ->
            <<"development_period">>
      [] OTHER -> <<"origin_period", "development_period">>

\* C4: in the constructed model every variable's declared index set is that of
\* its role: origin for the per-origin variables, development for the
\* per-development ones, (origin, development) for every per-cell variable.
C4_DeclaredIndexSetsMatchRoles ==
    pc = "done" =>
        \A i \in 1..Len(named_vars) : named_vars[i].dims = RoleDims(named_vars[i].name)

ShapeMismatch(a) ==
    \/ a.observed_rpt_loss.shape # <<NumOrigin(a), NumDev(a)>>
    \/ a.observed_paid_loss.shape # <<NumOrigin(a), NumDev(a)>>

\* C5: when the shape of an observed matrix differs from
\* (len(origin_period), len(development_period)) the call ends in a dimension
\* error and returns no model.
C5_ShapeMismatchIsDimensionError ==
    (Ended /\ ShapeMismatch(args)) =>
        (pc = "failed" /\ error = "dimension" /\ returned = "nothing")

NonPositiveEntry(a) ==
    ~AllPositive(a.observed_rpt_loss) \/ ~AllPositive(a.observed_paid_loss)

\* C6: when an entry of an observed matrix is <= 0 the call ends in a domain
\* error and returns no model.
C6_NonPositiveIsDomainError ==
    (Ended /\ NonPositiveEntry(args)) =>
        (pc = "failed" /\ error = "domain" /\ returned = "nothing")

\* C7: for every valid input the returned model's rpt_loss is observed at the
\* supplied reported matrix and its paid_loss at the supplied paid matrix, and
\* no other variable of the model is observed.
C7_ObservedAtSuppliedMatrices ==
    (pc = "done" /\ ValidArgs(args)) =>
        /\ returned = "model"
        /\ \E i \in 1..Len(named_vars) :
              /\ named_vars[i].name = "rpt_loss"
              /\ named_vars[i].observed = <<args.observed_rpt_loss>>
        /\ \E i \in 1..Len(named_vars) :
              /\ named_vars[i].name = "paid_loss"
              /\ named_vars[i].observed = <<args.observed_paid_loss>>
        /\ \A i \in 1..Len(named_vars) :
              named_vars[i].name \notin {"rpt_loss", "paid_loss"} =>
                  named_vars[i].observed = <<>>

\* a model is returned for valid arguments whose two matrices differ
C7_Witness ==
    /\ pc = "done"
    /\ ValidArgs(args)
    /\ args.observed_rpt_loss # args.observed_paid_loss
    /\ NumOrigin(args) # NumDev(args)

\* C8: the context a call opens is not active once the call has ended, by a
\* return or by an exception at any declaration: the ambient stack is then
\* the one before the first call, and a failed call returns no model.
C8_ContextReleased ==
    /\ pc \in {"idle", "done", "failed"} => context_stack = outer
    /\ pc = "declare" => context_stack = Append(outer, "model")
    /\ pc = "failed" => returned = "nothing"

\* a call failed after some declarations, inside an enclosing context
C8_Witness ==
    /\ pc = "failed"
    /\ Len(named_vars) >= 5
    /\ outer # <<>>
    /\ context_stack = outer

Stage(name) ==
    CASE name \in {"log__expected_ult__loss", "expected_pct_of_ult__rpt_loss",
                   "expected_pct_of_ult__paid_loss", "sigma__rpt_loss",
                   "sigma__paid_loss"} -> 1
      [] name = "expected_ult__loss" -> 2
      [] name \in {"mu__rpt_loss", "mu__paid_loss"} -> 3
      [] OTHER -> 4

C9_Step ==
    /\ error' # "unbound_local"
    /\ (pc = "declare" /\ pc' # "declare") => named_vars' = named_vars
    /\ (pc = "declare" /\ pc' = "done") =>
           {Stage(n) : n \in Names(named_vars)} = {1, 2, 3, 4}
    /\ (pc = "declare" /\ named_vars' # named_vars) =>
           /\ Len(named_vars') = Len(named_vars) + 1
           /\ SubSeq(named_vars', 1, Len(named_vars)) = named_vars
           /\ LET d == named_vars'[Len(named_vars')]
              IN  /\ d.name \notin Names(named_vars)
                  /\ d.parents \subseteq Names(named_vars)
                  /\ \A n \in Names(named_vars) : Stage(n) <= Stage(d.name)

\* C9: construction is one linear sequence: the priors, then
\* expected_ult__loss, then the two mu, then the two likelihoods; a declaration
\* references only names already registered, and a registered name is
\* registered once and not changed by a later step.
C9_DeclaredAfterParents == [][C9_Step]_vars

\* a call registered all ten variables and returned
C9_Witness ==
    /\ pc = "done"
    /\ Len(named_vars) = Len(DeclOrder)
    /\ Cardinality(Names(named_vars)) = Len(DeclOrder)

====
